---- MODULE Spec2Model ----
(***************************************************************************)
(* Model of the query-processing pipeline of amc_combined_bot              *)
(* (src/src/utils.py), of the Streamlit shell that calls it (src/app.py)   *)
(* and of the older chat handler (src/src/chat_handlers.py).               *)
(*                                                                         *)
(* Text is modelled run-length encoded: a string is a sequence of runs     *)
(* [k |-> class, n |-> count], n >= 1 characters of character class k,     *)
(* adjacent runs having different classes.  The classes "sp" (U+0020) and  *)
(* "ws" (any other whitespace: tab, newline, ...) are what str.split() and *)
(* str.strip() treat as whitespace; every other class is content.  The     *)
(* encoding lets the 1000-character truncation of sanitize_query and the   *)
(* 10-character threshold of validate_response act on strings of their     *)
(* real lengths.                                                           *)
(***************************************************************************)
EXTENDS Integers, Sequences, FiniteSets, TLC

VARIABLES call, ret, done,
          messages, chat_messages, current_namespace, produced

vars == <<call, ret, done, messages, chat_messages, current_namespace, produced>>

-----------------------------------------------------------------------------
(* Bounds of the model *)

MaxRuns == 3            \* runs in a raw query handed to sanitize_query
MaxMatches == 3         \* matches in a list handed to process_pinecone_results
MaxStoreMatches == 2    \* matches in a vector-store response of a pipeline run
MaxTurns == 2           \* chat turns held by the session transcripts together

(* Program constants *)

MAX_QUERY_LEN == 1000   \* query[:1000]
MIN_RESPONSE_LEN == 10  \* len(response) < 10
TOP_K == 5              \* top_k=5

-----------------------------------------------------------------------------
(* Strings *)

Run(k, n) == [k |-> k, n |-> n]

IsSpace(k) == k \in {"sp", "ws"}

RECURSIVE StrLen(_)
StrLen(s) == IF s = <<>> THEN 0 ELSE Head(s).n + StrLen(Tail(s))

\* s + t
Cat(s, t) ==
  IF s = <<>> THEN t
  ELSE IF t = <<>> THEN s
  ELSE IF s[Len(s)].k = Head(t).k
       THEN SubSeq(s, 1, Len(s) - 1)
              \o <<Run(Head(t).k, s[Len(s)].n + Head(t).n)>> \o Tail(t)
       ELSE s \o t

\* s[:n]
RECURSIVE Take(_, _)
Take(s, n) ==
  IF s = <<>> \/ n <= 0 THEN <<>>
  ELSE IF Head(s).n >= n THEN <<Run(Head(s).k, n)>>
  ELSE <<Head(s)>> \o Take(Tail(s), n - Head(s).n)

\* s.split(): the maximal whitespace-free substrings, in order
RECURSIVE SplitFrom(_, _, _)
SplitFrom(s, word, words) ==
  IF s = <<>>
  THEN IF word = <<>> THEN words ELSE Append(words, word)
  ELSE IF IsSpace(Head(s).k)
       THEN SplitFrom(Tail(s), <<>>,
                      IF word = <<>> THEN words ELSE Append(words, word))
       ELSE SplitFrom(Tail(s), Append(word, Head(s)), words)

Split(s) == SplitFrom(s, <<>>, <<>>)

\* sep.join(parts)
RECURSIVE Join(_, _)
Join(sep, parts) ==
  IF parts = <<>> THEN <<>>
  ELSE IF Len(parts) = 1 THEN parts[1]
  ELSE Cat(Cat(parts[1], sep), Join(sep, Tail(parts)))

\* s.strip()
RECURSIVE LStrip(_)
LStrip(s) == IF s # <<>> /\ IsSpace(Head(s).k) THEN LStrip(Tail(s)) ELSE s

RECURSIVE RStrip(_)
RStrip(s) ==
  IF s # <<>> /\ IsSpace(s[Len(s)].k) THEN RStrip(SubSeq(s, 1, Len(s) - 1)) ELSE s

Strip(s) == RStrip(LStrip(s))

SPACE == <<Run("sp", 1)>>

Normalised(s) == \A i \in 1..(Len(s) - 1) : s[i].k # s[i + 1].k

-----------------------------------------------------------------------------
(* Input Sanitizer *)

sanitize_query_untruncated(query) == Join(SPACE, Split(query))

sanitize_query(query) == Take(Join(SPACE, Split(query)), MAX_QUERY_LEN)

(* Response Validator *)

validate_response_off_by_one(response) ==
  IF response = <<>> THEN FALSE
  ELSE IF StrLen(response) < MIN_RESPONSE_LEN - 1 THEN FALSE
  ELSE TRUE

validate_response(response) ==
  IF response = <<>> THEN FALSE
  ELSE IF StrLen(response) < MIN_RESPONSE_LEN THEN FALSE
  ELSE TRUE

-----------------------------------------------------------------------------
(* Matches and their metadata *)

\* A metadata value: a string, a non-string value (the store also holds
\* numbers), or no entry under the key.
StrVal(s) == [t |-> "str", s |-> s]
NumVal == [t |-> "num", s |-> <<>>]
Absent == [t |-> "absent", s |-> <<>>]

NoneMeta == [isNone |-> TRUE, text |-> Absent, reference |-> Absent]
Dict(text, reference) == [isNone |-> FALSE, text |-> text, reference |-> reference]

Match(score, metadata) == [score |-> score, metadata |-> metadata]

\* metadata.get(key, "")
Get(metadata, key) ==
  IF metadata[key].t = "absent" THEN StrVal(<<>>) ELSE metadata[key]

\* the truth value of a metadata value: `if text:`, `if ref:`
Truthy(v) == v.t = "num" \/ (v.t = "str" /\ v.s # <<>>)

\* the truth value of match.metadata: neither None nor an empty dict
MetadataTruthy(metadata) ==
  /\ ~metadata.isNone
  /\ (metadata.text.t # "absent" \/ metadata.reference.t # "absent")

(* Result Aggregator: context extraction *)

\* A slip that nests the reference under `if text:`.
ExtractStep_nested(match, acc) ==
  IF MetadataTruthy(match.metadata) /\ Truthy(Get(match.metadata, "text"))
  THEN [context_parts |-> Append(acc.context_parts, Get(match.metadata, "text")),
        references |->
          IF Truthy(Get(match.metadata, "reference"))
          THEN Append(acc.references, Get(match.metadata, "reference"))
          ELSE acc.references]
  ELSE acc

\* one iteration of `for match in matches:`
ExtractStep(match, acc) ==
  IF MetadataTruthy(match.metadata)
  THEN LET text == Get(match.metadata, "text")
           ref == Get(match.metadata, "reference")
       IN [context_parts |->
             IF Truthy(text) THEN Append(acc.context_parts, text)
             ELSE acc.context_parts,
           references |->
             IF Truthy(ref) THEN Append(acc.references, ref)
             ELSE acc.references]
  ELSE acc

RECURSIVE ExtractLoop(_, _)
ExtractLoop(matches, acc) ==
  IF matches = <<>> THEN acc
  ELSE ExtractLoop(Tail(matches), ExtractStep(Head(matches), acc))

\* " ".join(context_parts) raises TypeError on a part that is no string.
process_pinecone_results(matches) ==
  LET acc == ExtractLoop(matches, [context_parts |-> <<>>, references |-> <<>>])
      parts == acc.context_parts
  IN IF \E i \in 1..Len(parts) : parts[i].t # "str"
     THEN [exc |-> "TypeError", context |-> <<>>, references |-> <<>>]
     ELSE [exc |-> "none",
           context |-> Join(SPACE, [i \in 1..Len(parts) |-> parts[i].s]),
           references |-> acc.references]

-----------------------------------------------------------------------------
(* The fixed user-facing messages: one run of the message's length, its     *)
(* class naming the message.                                                *)

ErrGenerateMsg == <<Run("msg_generate_error", 78)>>
TechFaultMsg == <<Run("msg_technical_fault", 77)>>
NoResultsMsg == <<Run("msg_no_results", 37)>>
CouldNotMsg == <<Run("msg_could_not_generate", 46)>>
GenericMsg == <<Run("msg_processing_error", 39)>>

FixedMsgs == {ErrGenerateMsg, TechFaultMsg, NoResultsMsg, CouldNotMsg, GenericMsg}

-----------------------------------------------------------------------------
(* Embedding Client.  env.embed is what the embedding service does:         *)
(* "vector" (an embedding), "empty" (a response holding an empty embedding),*)
(* "OpenAIError" or "Exception" (the call or the response's shape fails).   *)
(* The embedding of a text is modelled as the one-element vector <<text>>.  *)

get_query_embedding(query, env) ==
  [vector |-> IF env.embed = "vector" THEN <<query>> ELSE <<>>,
   call |-> [input |-> query, outcome |-> env.embed,
            vector |-> IF env.embed = "vector" THEN <<query>> ELSE <<>>],
   errors |-> IF env.embed = "OpenAIError" THEN <<"OpenAI Embedding API error">>
              ELSE IF env.embed = "Exception"
                   THEN <<"Unexpected error generating embeddings">>
                   ELSE <<>>]

(* Vector Store Client.  env.store is what the store does: exc is "none",   *)
(* "PineconeException" or "Exception"; matches is what the namespace holds  *)
(* for the vector, best first, of which the store returns the first top_k.  *)

index_query(request, env) ==
  IF env.store.exc # "none"
  THEN [exc |-> env.store.exc, matches |-> <<>>]
  ELSE [exc |-> "none",
        matches |-> SubSeq(env.store.matches, 1,
                           IF Len(env.store.matches) < request.top_k
                           THEN Len(env.store.matches) ELSE request.top_k)]

NeverShortCircuit(query_vector) == FALSE

\* `if not query_vector: return []`
ShortCircuit(query_vector) == query_vector = <<>>

StoreRequest_top3(query_vector, namespace) ==
  [vector |-> query_vector, namespace |-> namespace, top_k |-> 3,
   include_metadata |-> TRUE]

StoreRequest(query_vector, namespace) ==
  [vector |-> query_vector, namespace |-> namespace, top_k |-> TOP_K,
   include_metadata |-> TRUE]

query_pinecone(namespace, query, env) ==
  LET clean_query == sanitize_query(query)
      emb == get_query_embedding(clean_query, env)
      request == StoreRequest(emb.vector, namespace)
      response == index_query(request, env)
  IN IF ShortCircuit(emb.vector)
     THEN [matches |-> <<>>, embedCalls |-> <<emb.call>>, storeCalls |-> <<>>,
           errors |-> emb.errors]
     ELSE [matches |-> response.matches,
           embedCalls |-> <<emb.call>>,
           storeCalls |-> <<[request |-> request, outcome |-> response.exc]>>,
           errors |-> emb.errors \o
                      (IF response.exc = "PineconeException"
                       THEN <<"Pinecone query error">>
                       ELSE IF response.exc = "Exception"
                            THEN <<"Unexpected error during query">>
                            ELSE <<>>)]

(* Response Generator.  env.gen is what the generative model does: exc is   *)
(* "none", "OpenAIError" or "Exception"; content is the first choice's text.*)
(* "\n".join(references) raises TypeError on a reference that is no string, *)
(* before the model is called.                                              *)

generate_response(context, user_input, references, env) ==
  LET prompt == [context |-> context, user_input |-> user_input,
                 references |-> references]
  IN IF references # <<>> /\ \E i \in 1..Len(references) : references[i].t # "str"
     THEN [response |-> TechFaultMsg, modelCalls |-> <<>>,
           errors |-> <<"Unexpected error generating response">>]
     ELSE IF env.gen.exc = "OpenAIError"
     THEN [response |-> ErrGenerateMsg,
           modelCalls |-> <<[prompt |-> prompt, outcome |-> "OpenAIError"]>>,
           errors |-> <<"OpenAI API error">>]
     ELSE IF env.gen.exc = "Exception"
     THEN [response |-> TechFaultMsg,
           modelCalls |-> <<[prompt |-> prompt, outcome |-> "Exception"]>>,
           errors |-> <<"Unexpected error generating response">>]
     ELSE [response |-> Strip(env.gen.content),
           modelCalls |-> <<[prompt |-> prompt, outcome |-> "none"]>>,
           errors |-> <<>>]

-----------------------------------------------------------------------------
(* Pipeline Orchestrator *)

ExceptionKinds ==
  {"TypeError", "AttributeError", "OpenAIError", "PineconeException",
   "APIError", "Exception"}

CatchesOnlyAPIError(exc) == exc = "APIError"

\* `except Exception as e:` at the orchestrator boundary
Catches(exc) == exc \in ExceptionKinds

NoMatches_never(matches) == FALSE

\* `if not matches:`
NoMatches(matches) == matches = <<>>

\* What one call of process_user_query did: the pair it returned (response,
\* success), whether an exception left it instead (raised), the exception that
\* reached its boundary (exc), and the calls it made to its collaborators.
Outcome(response, success, raised, exc, q, extractCalls, genCalls, generated, modelCalls, errors) ==
  [response |-> response, success |-> success, raised |-> raised, exc |-> exc,
   embedCalls |-> q.embedCalls, storeCalls |-> q.storeCalls,
   matches |-> q.matches, extractCalls |-> extractCalls,
   genCalls |-> genCalls, generated |-> generated, modelCalls |-> modelCalls,
   errors |-> q.errors \o errors]

process_user_query(query, namespace, env) ==
  LET q == query_pinecone(namespace, query, env)
      p == process_pinecone_results(q.matches)
      g == generate_response(p.context, query, p.references, env)
      genCall == [context |-> p.context, user_input |-> query,
                  references |-> p.references]
  IN IF NoMatches(q.matches)
     THEN Outcome(NoResultsMsg, FALSE, FALSE, "none", q,
                  <<>>, <<>>, <<>>, <<>>, <<>>)
     ELSE IF p.exc # "none"
     THEN IF Catches(p.exc)
          THEN Outcome(GenericMsg, FALSE, FALSE, p.exc, q,
                       <<q.matches>>, <<>>, <<>>, <<>>,
                       <<"Error in process_user_query">>)
          ELSE Outcome(<<>>, FALSE, TRUE, p.exc, q,
                       <<q.matches>>, <<>>, <<>>, <<>>, <<>>)
     ELSE IF ~validate_response(g.response)
     THEN Outcome(CouldNotMsg, FALSE, FALSE, "none", q,
                  <<q.matches>>, <<genCall>>, <<g.response>>, g.modelCalls,
                  g.errors)
     ELSE Outcome(g.response, TRUE, FALSE, "none", q,
                  <<q.matches>>, <<genCall>>, <<g.response>>, g.modelCalls,
                  g.errors)

-----------------------------------------------------------------------------
(* Inputs *)

\* NAMESPACE_MAP
Topics == {"GPMC Act", "Compilation of Circulars", "Tax Laws"}
FirstTopic == "GPMC Act"
NAMESPACE_MAP ==
  [t \in Topics |->
     IF t = "GPMC Act" THEN "gpmcact"
     ELSE IF t = "Compilation of Circulars" THEN "compcirculars"
     ELSE "taxlaw"]
KnownNamespaces == {NAMESPACE_MAP[t] : t \in Topics}
NoNamespace == "None"
Namespaces == KnownNamespaces \cup {NoNamespace}

SeqsUpTo(S, n) == UNION {[1..m -> S] : m \in 0..n}

\* raw queries: every normalised string of at most MaxRuns runs
RunLens == {1, 2, MAX_QUERY_LEN - 1}
Runs == {Run(k, n) : k \in {"c", "sp", "ws"}, n \in RunLens}
RawQueries == {s \in SeqsUpTo(Runs, MaxRuns) : Normalised(s)}

\* match lists for context extraction
TA == <<Run("a", 6)>>
TB == <<Run("b", 4)>>
R1 == <<Run("r", 3)>>
R2 == <<Run("s", 2)>>
TextVals == {Absent, StrVal(<<>>), StrVal(TA), StrVal(TB), NumVal}
RefVals == {Absent, StrVal(<<>>), StrVal(R1), StrVal(R2)}
Metadatas == {NoneMeta} \cup {Dict(t, r) : t \in TextVals, r \in RefVals}
MatchLists == SeqsUpTo({Match(1, md) : md \in Metadatas}, MaxMatches)

\* responses for validation
Completions ==
  { <<>>, <<Run("g", 9)>>, <<Run("g", 10)>>,
    <<Run("sp", 1), Run("g", 9), Run("sp", 1)>>,
    <<Run("ws", 1), Run("g", 12), Run("sp", 2)>> }
Responses == FixedMsgs \cup Completions \cup {Strip(c) : c \in Completions}

\* pipeline runs
PipelineQueries ==
  { <<>>,
    <<Run("c", 5)>>,
    <<Run("sp", 2), Run("c", 3), Run("ws", 1), Run("c", 2)>>,
    <<Run("c", MAX_QUERY_LEN - 1), Run("sp", 1), Run("c", 5)>> }

M1 == Match(3, Dict(StrVal(TA), StrVal(R1)))
M2 == Match(2, Dict(StrVal(TB), Absent))
M3 == Match(2, Dict(Absent, StrVal(R2)))
M4 == Match(1, NoneMeta)
M5 == Match(1, Dict(NumVal, Absent))
M6 == Match(1, Dict(StrVal(TB), NumVal))
StorePool == {M1, M2, M3, M4, M5, M6}

ScoreOrdered(ms) == \A i \in 1..(Len(ms) - 1) : ms[i].score >= ms[i + 1].score

\* a namespace holding more than top_k matches for the vector
HeldMany == [i \in 1..(TOP_K + 1) |-> IF i = 1 THEN M1 ELSE M2]

StoreHoldings ==
  {ms \in SeqsUpTo(StorePool, MaxStoreMatches) : ScoreOrdered(ms)} \cup {HeldMany}

EmbedOutcomes == {"vector", "empty", "OpenAIError", "Exception"}
StoreOutcomes ==
  {[exc |-> "none", matches |-> ms] : ms \in StoreHoldings}
    \cup {[exc |-> e, matches |-> <<>>] : e \in {"PineconeException", "Exception"}}
GenOutcomes ==
  {[exc |-> "none", content |-> c] : c \in Completions}
    \cup {[exc |-> e, content |-> <<>>] : e \in {"OpenAIError", "Exception"}}
Envs == [embed : EmbedOutcomes, store : StoreOutcomes, gen : GenOutcomes]

PipelineArgs == [query : PipelineQueries, namespace : Namespaces, env : Envs]

NoCall == [fn |-> "none", args |-> <<>>]

-----------------------------------------------------------------------------
(* The functions of src/src/utils.py, each applied to one drawn input *)

\* initialize_session_state
SessionInit ==
  /\ messages = [t \in Topics |-> <<>>]
  /\ chat_messages = <<>>
  /\ current_namespace = FirstTopic
  /\ produced = {}

Init ==
  /\ \/ \E q \in RawQueries :
          call = [fn |-> "sanitize_query", args |-> [query |-> q]]
     \/ \E ms \in MatchLists :
          call = [fn |-> "process_pinecone_results", args |-> [matches |-> ms]]
     \/ \E r \in Responses :
          call = [fn |-> "validate_response", args |-> [response |-> r]]
     \/ \E a \in PipelineArgs :
          call = [fn |-> "process_user_query", args |-> a]
  /\ ret = <<>>
  /\ done = FALSE
  /\ SessionInit

session == <<messages, chat_messages, current_namespace, produced>>

SanitizeQuery ==
  /\ ~done /\ call.fn = "sanitize_query"
  /\ ret' = sanitize_query(call.args.query)
  /\ done' = TRUE
  /\ UNCHANGED <<call, session>>

ProcessPineconeResults ==
  /\ ~done /\ call.fn = "process_pinecone_results"
  /\ ret' = process_pinecone_results(call.args.matches)
  /\ done' = TRUE
  /\ UNCHANGED <<call, session>>

ValidateResponse ==
  /\ ~done /\ call.fn = "validate_response"
  /\ ret' = validate_response(call.args.response)
  /\ done' = TRUE
  /\ UNCHANGED <<call, session>>

ProcessUserQuery ==
  /\ ~done /\ call.fn = "process_user_query"
  /\ ret' = process_user_query(call.args.query, call.args.namespace, call.args.env)
  /\ done' = TRUE
  /\ UNCHANGED <<call, session>>

Next ==
  \/ SanitizeQuery
  \/ ProcessPineconeResults
  \/ ValidateResponse
  \/ ProcessUserQuery

Spec == Init /\ [][Next]_vars

-----------------------------------------------------------------------------
(* The session shells.  src/app.py keeps st.session_state.messages as one   *)
(* transcript per topic (messages); src/src/chat_handlers.py appends to     *)
(* st.session_state.messages as one list (chat_messages).  produced is a    *)
(* history variable: the (query, response) pairs that calls of              *)
(* process_user_query returned with success = true.                         *)

UIQueries == { <<Run("c", 5)>> }

UIEnvs ==
  [embed : {"vector", "OpenAIError"},
   store : {[exc |-> "none", matches |-> ms] : ms \in {<<M1, M2>>, <<M4>>, <<M5>>}},
   gen : {[exc |-> "none", content |-> <<Run("g", 10)>>],
          [exc |-> "none", content |-> <<Run("g", 9)>>],
          [exc |-> "OpenAIError", content |-> <<>>]}]

RECURSIVE SumLen(_, _)
SumLen(f, S) ==
  IF S = {} THEN 0
  ELSE LET t == CHOOSE x \in S : TRUE IN Len(f[t]) + SumLen(f, S \ {t})

TotalTurns == SumLen(messages, Topics) + Len(chat_messages)

UIInit ==
  /\ call = NoCall
  /\ ret = <<>>
  /\ done = FALSE
  /\ SessionInit

\* display_sidebar: the button of a topic is pressed
SelectTopic ==
  \E t \in Topics :
    /\ current_namespace' = t
    /\ UNCHANGED <<call, ret, done, messages, chat_messages, produced>>

\* main: the script runs with a text in the input box.  The call hands
\* process_user_query four arguments (index, openai_client, user_input,
\* namespace); against the three-parameter process_user_query of
\* src/src/utils.py that is a TypeError, caught by main's own handler
\* (binds = FALSE); against a process_user_query taking the client as well
\* it is a run of the pipeline (binds = TRUE).
Main ==
  \E user_input \in UIQueries, env \in UIEnvs, binds \in BOOLEAN :
    /\ user_input # <<>>
    /\ TotalTurns < MaxTurns
    /\ LET namespace == NAMESPACE_MAP[current_namespace]
           r == process_user_query(user_input, namespace, env)
       IN IF binds /\ ~r.raised /\ r.success
          THEN /\ messages' =
                    [messages EXCEPT ![current_namespace] =
                       Append(@, [user |-> user_input, bot |-> r.response])]
               /\ produced' = produced \cup {<<user_input, r.response>>}
          ELSE UNCHANGED <<messages, produced>>
    /\ UNCHANGED <<call, ret, done, chat_messages, current_namespace>>

\* handle_user_input: item.metadata.get raises AttributeError on a match
\* whose metadata is None, and " ".join raises TypeError on a text that is
\* no string; neither is caught, and nothing is appended.
HandleUserInput ==
  \E user_input \in UIQueries, namespace \in KnownNamespaces, env \in UIEnvs :
    /\ user_input # <<>>
    /\ TotalTurns < MaxTurns
    /\ LET q == query_pinecone(namespace, user_input, env)
           matches == q.matches
           texts == [i \in 1..Len(matches) |-> Get(matches[i].metadata, "text")]
           context == Join(SPACE, [i \in 1..Len(texts) |-> texts[i].s])
           g == generate_response(context, user_input, <<>>, env)
       IN IF /\ matches # <<>>
             /\ \A i \in 1..Len(matches) : ~matches[i].metadata.isNone
             /\ \A i \in 1..Len(texts) : texts[i].t = "str"
          THEN chat_messages' =
                 Append(chat_messages, [user |-> user_input, bot |-> g.response])
          ELSE UNCHANGED chat_messages
    /\ UNCHANGED <<call, ret, done, messages, current_namespace, produced>>

UINext == SelectTopic \/ Main \/ HandleUserInput

UISpec == UIInit /\ [][UINext]_vars

-----------------------------------------------------------------------------
(* Properties of the pipeline *)

Ran(fn) == done /\ call.fn = fn

\* the generative model was called in the run and the call threw
ModelCallThrew == ret.modelCalls # <<>> /\ ret.modelCalls[1].outcome # "none"

\* C1: whenever retrieval returned at least one match and the call of the
\* generative model threw, process_user_query returns exactly the pair
\* (the 'error generating the answer' apology, success = false).
C1_GenerationFailureReturnsFailure ==
  (Ran("process_user_query") /\ ret.matches # <<>> /\ ModelCallThrew)
    => (ret.response = ErrGenerateMsg /\ ret.success = FALSE)

\* C2: process_user_query never raises past its boundary: every call ends by
\* returning a (string, boolean) pair, and an exception that no component
\* handled yields the generic failure message with success = false, logged
\* to the operator-facing error surface.
C2_NeverRaises ==
  Ran("process_user_query") =>
    /\ ~ret.raised
    /\ ret.success \in BOOLEAN
    /\ ret.success => ret.response # <<>>
    /\ ~ret.success => ret.response \in FixedMsgs
    /\ ret.exc # "none" =>
         /\ ret.response = GenericMsg
         /\ ret.success = FALSE
         /\ ret.errors # <<>>
         /\ ret.errors[Len(ret.errors)] = "Error in process_user_query"

C2_Witness ==
  /\ Ran("process_user_query")
  /\ ret.exc = "TypeError"
  /\ ret.response = GenericMsg
  /\ ~ret.success

\* C3: whenever retrieval yields an empty match list (the store returned no
\* match, or its call failed and degraded to an empty list),
\* process_user_query returns the 'no relevant information found' message
\* with success = false and the Response Generator is never invoked.
C3_NoMatchesNoGeneration ==
  (Ran("process_user_query") /\ ret.matches = <<>>) =>
    /\ ret.response = NoResultsMsg
    /\ ret.success = FALSE
    /\ ret.genCalls = <<>>
    /\ ret.modelCalls = <<>>

C3_Witness ==
  /\ Ran("process_user_query")
  /\ ret.storeCalls # <<>>
  /\ ret.storeCalls[1].outcome = "PineconeException"
  /\ ret.matches = <<>>
  /\ ret.response = NoResultsMsg

\* C4: if the Embedding Client returns an empty vector (its call failing
\* included), the Vector Store Client is never invoked in that call and the
\* call ends in the no-results branch.
C4_EmptyEmbeddingSkipsStore ==
  (Ran("process_user_query") /\ ret.embedCalls[1].vector = <<>>) =>
    /\ ret.storeCalls = <<>>
    /\ ret.response = NoResultsMsg
    /\ ret.success = FALSE

C4_Witness ==
  /\ Ran("process_user_query")
  /\ ret.embedCalls[1].outcome = "OpenAIError"
  /\ ret.embedCalls[1].vector = <<>>
  /\ ret.storeCalls = <<>>
  /\ ret.response = NoResultsMsg

\* C5: called with the namespace absent, process_user_query issues one
\* retrieval per known namespace, and the matches handed to context
\* extraction are non-increasing in score and at most 5.
C5_AbsentNamespaceFansOut ==
  (Ran("process_user_query") /\ call.args.namespace = NoNamespace
     /\ ret.extractCalls # <<>>) =>
    /\ Len(ret.storeCalls) = Cardinality(KnownNamespaces)
    /\ {ret.storeCalls[i].request.namespace : i \in 1..Len(ret.storeCalls)}
         = KnownNamespaces
    /\ ScoreOrdered(ret.extractCalls[1])
    /\ Len(ret.extractCalls[1]) <= 5

HasDoubleSpace(s) ==
  \E i \in 1..Len(s) :
    /\ IsSpace(s[i].k)
    /\ (s[i].n >= 2 \/ (i < Len(s) /\ IsSpace(s[i + 1].k)))

\* C6: for every input, sanitize_query returns a string of at most 1000
\* characters holding no two consecutive spaces; no whitespace other than
\* the single space is left in it.
C6_SanitizeBounded ==
  Ran("sanitize_query") =>
    /\ StrLen(ret) <= 1000
    /\ ~HasDoubleSpace(ret)
    /\ \A i \in 1..Len(ret) : ret[i].k # "ws"

C6_Witness ==
  /\ Ran("sanitize_query")
  /\ StrLen(call.args.query) > 1000
  /\ HasDoubleSpace(call.args.query)
  /\ StrLen(ret) = 1000

HasText(m) ==
  ~m.metadata.isNone /\ m.metadata.text.t = "str" /\ m.metadata.text.s # <<>>
HasReference(m) ==
  ~m.metadata.isNone /\ m.metadata.reference.t = "str"
    /\ m.metadata.reference.s # <<>>
TextsOf(ms) == [i \in 1..Len(ms) |-> ms[i].metadata.text.s]
ReferencesOf(ms) == [i \in 1..Len(ms) |-> ms[i].metadata.reference]

\* C7: process_pinecone_results returns as context the space-joined texts of
\* exactly the matches with a non-empty text, in match order, and as
\* references those of exactly the matches with a non-empty reference, in
\* match order; the two are filtered independently.
C7_IndependentFilters ==
  (Ran("process_pinecone_results") /\ ret.exc = "none") =>
    /\ ret.context = Join(SPACE, TextsOf(SelectSeq(call.args.matches, HasText)))
    /\ ret.references = ReferencesOf(SelectSeq(call.args.matches, HasReference))

C7_Witness ==
  /\ Ran("process_pinecone_results")
  /\ Len(call.args.matches) = 3
  /\ ~HasText(call.args.matches[1]) /\ HasReference(call.args.matches[1])
  /\ HasText(call.args.matches[2]) /\ ~HasReference(call.args.matches[2])
  /\ HasText(call.args.matches[3])
  /\ ret.exc = "none"
  /\ Len(ret.references) >= 1
  /\ ret.references[1] = call.args.matches[1].metadata.reference

TooShort(response) == response = <<>> \/ StrLen(response) < 10

\* C8: validate_response returns false exactly for a response that is empty
\* or shorter than 10 characters; when the generated response is invalid,
\* process_user_query returns the 'could not generate' message with
\* success = false; success = true comes only with a response of at least
\* 10 characters.
C8_ValidationGate ==
  /\ Ran("validate_response") => (ret = FALSE <=> TooShort(call.args.response))
  /\ (Ran("process_user_query") /\ ret.genCalls # <<>>
        /\ TooShort(ret.generated[1])) =>
       (ret.response = CouldNotMsg /\ ret.success = FALSE)
  /\ (Ran("process_user_query") /\ ret.success) => StrLen(ret.response) >= 10

C8_Witness ==
  /\ Ran("process_user_query")
  /\ ret.genCalls # <<>>
  /\ StrLen(ret.generated[1]) = 9
  /\ ret.response = CouldNotMsg
  /\ ~ret.success

\* the model was called in the run and returned a completion
ModelCallReturned == ret.modelCalls # <<>> /\ ret.modelCalls[1].outcome = "none"

C9_Case ==
  /\ Ran("process_user_query")
  /\ call.args.namespace \in KnownNamespaces
  /\ ret.matches # <<>>
  /\ \A i \in 1..Len(ret.matches) : HasText(ret.matches[i])
  /\ ModelCallReturned
  /\ StrLen(ret.generated[1]) >= 10

\* C9: in a single-namespace call where the store returns a non-empty match
\* list with a text on every match and the model returns a completion of at
\* least 10 characters, the store is queried once, with top_k = 5 and the
\* given namespace, the generator is invoked once with the space-joined
\* match texts in the store's order as context, and the result is
\* (completion text, true).
C9_HappyPath ==
  C9_Case =>
    /\ Len(ret.storeCalls) = 1
    /\ ret.storeCalls[1].request.top_k = 5
    /\ ret.storeCalls[1].request.namespace = call.args.namespace
    /\ ret.storeCalls[1].request.include_metadata
    /\ ret.matches = SubSeq(call.args.env.store.matches, 1, Len(ret.matches))
    /\ Len(ret.matches) <= 5
    /\ Len(ret.genCalls) = 1
    /\ ret.genCalls[1].context = Join(SPACE, TextsOf(ret.matches))
    /\ Len(ret.modelCalls) = 1
    /\ ret.response = Strip(call.args.env.gen.content)
    /\ ret.success = TRUE

C9_Witness ==
  /\ C9_Case
  /\ ret.matches = <<M1, M2>>
  /\ ret.genCalls[1].context = <<Run("a", 6), Run("sp", 1), Run("b", 4)>>
  /\ ret.response = <<Run("g", 12)>>
  /\ ret.success

Turns ==
  {chat_messages[i] : i \in 1..Len(chat_messages)}
    \cup UNION {{messages[t][i] : i \in 1..Len(messages[t])} : t \in Topics}

\* C10: every (user, bot) entry of a session transcript was produced by a
\* run of the pipeline that ended with success = true and a validated
\* response.
C10_TurnsOnlyFromSuccessfulRuns ==
  \A turn \in Turns :
    /\ <<turn.user, turn.bot>> \in produced
    /\ validate_response(turn.bot)

\* C11: the query text that process_user_query hands to the Response
\* Generator is the sanitized query (whitespace collapsed, at most 1000
\* characters), the same text that was embedded for retrieval.
C11_GeneratorGetsSanitizedQuery ==
  (Ran("process_user_query") /\ ret.genCalls # <<>>) =>
    /\ ret.genCalls[1].user_input = sanitize_query(call.args.query)
    /\ ret.genCalls[1].user_input = ret.embedCalls[1].input
    /\ StrLen(ret.genCalls[1].user_input) <= 1000
    /\ ~HasDoubleSpace(ret.genCalls[1].user_input)

====
